---- MODULE Spec2Model ----
(***************************************************************************)
(* vue-query: the useBaseQuery composition function                        *)
(* (src/src/vue/useBaseQuery.ts).                                          *)
(*                                                                         *)
(* The model follows one call of useBaseQuery in one component.  The call  *)
(* creates an observer of its own, a reactive state initialised from the   *)
(* observer's current result, one subscription that copies every notified  *)
(* result onto the state, a watch effect that pushes the (reactive)        *)
(* options to the observer, an unmount hook that removes the subscription, *)
(* and a suspense() function.  All of these live in the call's closure, so *)
(* two calls share nothing.                                                *)
(*                                                                         *)
(* The observer itself (QueryObserver of react-query/core) is a            *)
(* dependency of the repository, not part of it.  It is the environment of *)
(* useBaseQuery: it may produce any result at any time and calls the       *)
(* callbacks subscribed to it.  Nothing else about it is assumed.          *)
(***************************************************************************)
EXTENDS Integers, Sequences, FiniteSets

\* Largest query key value the caller puts into the options.
MaxKey == 2
\* Largest data value a result carries (0 stands for undefined).
MaxData == 1

\* The callback this call of useBaseQuery subscribes to its observer.
Callback == "updateStateCallback"

Undefined == "undefined"

\* Placeholders for a result and for options that do not exist (yet).
NoResult == [status |-> "none", data |-> 0]
NoOptions == [queryKey |-> 0, enabled |-> "none", defaulted |-> FALSE]

\* QueryObserverResult (imported type): the fields the model keeps.
Statuses == {"idle", "loading", "success", "error"}
Results == [status : Statuses, data : 0..MaxData]

\* The options object the caller passes (UseBaseQueryOptions): a query key
\* and an optional enabled flag.
Options == [queryKey : 1..MaxKey, enabled : {Undefined, "false"}]

\* queryClient.defaultQueryObserverOptions: the client's defaults fill the
\* fields the caller left undefined, and the result is marked as defaulted.
defaultQueryObserverOptions(o) ==
    [queryKey |-> o.queryKey,
     enabled |-> IF o.enabled = Undefined THEN "true" ELSE o.enabled,
     defaulted |-> TRUE]

VARIABLES
    pc,                \* "unset", "mounted" or "unmounted"
    options,           \* the reactive options object handed to useBaseQuery
    defaultedOptions,  \* const defaultedOptions (line 56)
    obsOptions,        \* the observer's options
    obsResult,         \* the observer's current result
    listeners,         \* the observer's subscribed callbacks, in order
    state,             \* the reactive state (line 58)
    effectDirty,       \* the watch effect is scheduled to run again
    suspenseOptions,   \* options of the latest observer.fetchOptimistic call
    nObservers,        \* number of observers the call has constructed
    nSubscribed,       \* number of observer.subscribe calls the call has made
    initResult,        \* what observer.getCurrentResult() returned at line 58
    lastNotified       \* result of the latest notification the callback got

vars == <<pc, options, defaultedOptions, obsOptions, obsResult, listeners,
          state, effectDirty, suspenseOptions, nObservers, nSubscribed,
          initResult, lastNotified>>

\* updateState(state, update) of ./utils: every field of the state takes the
\* value the update has for it.
updateState(st, update) == [k \in DOMAIN st |-> update[k]]

\* A subscription callback that copies only the data field.
onResultDataOnly(st, result) == [st EXCEPT !.data = result.data]

\* The callback given to observer.subscribe: (result) => updateState(state, result).
onResult(st, result) == updateState(st, result)

\* The observer calls every subscribed callback with the result; the state
\* that leaves.
Deliver(ls, st, result) == IF ls = <<>> THEN st ELSE onResult(st, result)

\* A watch effect that hands the observer the options captured at setup.
effectOptionsCaptured(current, captured) == captured

\* The options the watch effect gives observer.setOptions:
\* queryClient.defaultQueryObserverOptions(options), read when it runs.
effectOptions(current, captured) == defaultQueryObserverOptions(current)

Init ==
    /\ pc = "unset"
    /\ options \in Options
    /\ defaultedOptions = NoOptions
    /\ obsOptions = NoOptions
    /\ obsResult = NoResult
    /\ listeners = <<>>
    /\ state = NoResult
    /\ effectDirty = FALSE
    /\ suspenseOptions = NoOptions
    /\ nObservers = 0
    /\ nSubscribed = 0
    /\ initResult = NoResult
    /\ lastNotified = NoResult

\* useBaseQuery(options, Observer): the whole synchronous setup.  r0 is the
\* result the new observer computes; the first run of the watch effect calls
\* observer.setOptions, which may leave the result alone (r1 = r0) or
\* change it and notify the callback subscribed just before.
UseBaseQuery ==
    /\ pc = "unset"
    /\ \E r0 \in Results, r1 \in Results :
        LET ls == <<Callback>>
        IN  /\ defaultedOptions' = defaultQueryObserverOptions(options)
            /\ initResult' = r0
            /\ listeners' = ls
            /\ obsOptions' = effectOptions(options, defaultQueryObserverOptions(options))
            /\ obsResult' = r1
            /\ state' = IF r1 = r0 THEN r0 ELSE Deliver(ls, r0, r1)
            /\ lastNotified' = IF r1 = r0 THEN NoResult ELSE r1
    /\ nObservers' = nObservers + 1
    /\ nSubscribed' = nSubscribed + 1
    /\ pc' = "mounted"
    /\ UNCHANGED <<options, effectDirty, suspenseOptions>>

\* The observer's result changes and it notifies its subscribers.
ObserverNotify ==
    /\ pc # "unset"
    /\ \E r \in Results \ {obsResult} :
        /\ obsResult' = r
        /\ state' = Deliver(listeners, state, r)
        /\ lastNotified' = IF listeners = <<>> THEN lastNotified ELSE r
    /\ UNCHANGED <<pc, options, defaultedOptions, obsOptions, listeners,
                   effectDirty, suspenseOptions, nObservers, nSubscribed, initResult>>

\* The caller changes the reactive options; a live watch effect that read
\* them is scheduled to run again.
ChangeOptions ==
    /\ pc # "unset"
    /\ \E o \in Options \ {options} : options' = o
    /\ effectDirty' = (pc = "mounted")
    /\ UNCHANGED <<pc, defaultedOptions, obsOptions, obsResult, listeners,
                   state, suspenseOptions, nObservers, nSubscribed, initResult,
                   lastNotified>>

\* A scheduled run of the watch effect: observer.setOptions with the
\* defaulted current options; setOptions may change the result and notify.
WatchEffect ==
    /\ pc = "mounted"
    /\ effectDirty
    /\ effectDirty' = FALSE
    /\ obsOptions' = effectOptions(options, defaultedOptions)
    /\ \E r \in Results :
        /\ obsResult' = r
        /\ state' = IF r = obsResult THEN state ELSE Deliver(listeners, state, r)
        /\ lastNotified' = IF r = obsResult \/ listeners = <<>>
                           THEN lastNotified ELSE r
    /\ UNCHANGED <<pc, options, defaultedOptions, listeners, suspenseOptions,
                   nObservers, nSubscribed, initResult>>

\* An unmount hook that leaves the subscription in place.
unsubscribeKeeps(ls) == ls

\* unsubscribe(): the function observer.subscribe returned removes the
\* callback from the observer's listeners.
unsubscribe(ls) == SelectSeq(ls, LAMBDA l : l # Callback)

\* onUnmounted: unsubscribe().  The component's effects stop with it.
Unmount ==
    /\ pc = "mounted"
    /\ pc' = "unmounted"
    /\ listeners' = unsubscribe(listeners)
    /\ effectDirty' = FALSE
    /\ UNCHANGED <<options, defaultedOptions, obsOptions, obsResult, state,
                   suspenseOptions, nObservers, nSubscribed, initResult,
                   lastNotified>>

\* suspense(): observer.fetchOptimistic(defaultedOptions).
Suspense ==
    /\ pc # "unset"
    /\ suspenseOptions' = defaultedOptions
    /\ UNCHANGED <<pc, options, defaultedOptions, obsOptions, obsResult,
                   listeners, state, effectDirty, nObservers, nSubscribed,
                   initResult, lastNotified>>

Next ==
    \/ UseBaseQuery
    \/ ObserverNotify
    \/ ChangeOptions
    \/ WatchEffect
    \/ Unmount
    \/ Suspense

Spec == Init /\ [][Next]_vars

\* C10: while the component is mounted, the reactive state is the result of
\* the latest notification the subscription callback received, and, as long
\* as no notification was delivered, the result observer.getCurrentResult()
\* returned when the state was created.
StateMirrorsObserverResult ==
    pc = "mounted" =>
        state = (IF lastNotified = NoResult THEN initResult ELSE lastNotified)

\* C10 witness: mounted, a notification was delivered with a result that
\* differs from the initial one in every field, and the state shows it.
MirroredAfterNotification ==
    /\ pc = "mounted"
    /\ lastNotified # NoResult
    /\ lastNotified.status # initResult.status
    /\ lastNotified.data # initResult.data
    /\ state = lastNotified

\* The call's observer and subscription counts, and the observer's listeners
\* before and after the unmount.
OneObserverOneSubscription ==
    /\ pc # "unset" => nObservers = 1 /\ nSubscribed = 1
    /\ pc = "mounted" => listeners = <<Callback>>
    /\ pc = "unmounted" => listeners = <<>>

\* C11: once useBaseQuery has run it has constructed exactly one observer
\* and subscribed exactly once; after the unmount the observer holds no
\* listener of this call, and no step changes the reactive state any more.
SubscriptionRemovedOnUnmount ==
    /\ []OneObserverOneSubscription
    /\ [][pc = "unmounted" => state' = state]_vars

\* C11 witness: after the unmount the observer has produced a result the
\* state, still showing the last notified one, no longer follows.
UnmountedStateLeftBehind ==
    /\ pc = "unmounted"
    /\ listeners = <<>>
    /\ lastNotified # NoResult
    /\ state = lastNotified
    /\ obsResult # state

\* C17: while the component is mounted and no run of the watch effect is
\* pending (it ran during setup and after every change of the reactive
\* options), the observer's options are the client-defaulted current
\* options; a change of the options while mounted always schedules a run.
ObserverOptionsFollowReactiveOptions ==
    /\ [](pc = "mounted" /\ ~effectDirty =>
            obsOptions = defaultQueryObserverOptions(options))
    /\ [][pc = "mounted" /\ options' # options => effectDirty']_vars

\* C17 witness: the options changed after setup, the effect ran again, and
\* the observer holds the new defaulted options, not those of the setup.
EffectReranAfterChange ==
    /\ pc = "mounted"
    /\ ~effectDirty
    /\ obsOptions = defaultQueryObserverOptions(options)
    /\ obsOptions.queryKey # defaultedOptions.queryKey

\* C18: every suspense() call passes observer.fetchOptimistic the options
\* the observer holds at that moment.
SuspenseUsesObserverOptions ==
    [][suspenseOptions' # suspenseOptions => suspenseOptions' = obsOptions]_vars

====
